---- MODULE Spec2Model ----
(***************************************************************************)
(* A state-machine model of dye's fablib.py: the deploy, deploy_clean,     *)
(* rollback and delete_old_rollback_versions tasks acting on the remote    *)
(* host's directories (dev = current, next, previous/<timestamp>), the     *)
(* serving layer and the database.  Each remote command of a task is one   *)
(* step; pc is the position of the invocation in flight.                   *)
(*                                                                         *)
(* Strings the code inspects (prompt answers, branch names, archive names) *)
(* are sequences of one-character strings, so that the regular-expression  *)
(* validation, the lexicographic order of ls and the Python slicing are    *)
(* computed, not assumed.                                                  *)
(***************************************************************************)
EXTENDS Integers, Sequences, FiniteSets, TLC

(***************************************************************************)
(* Bounds of the model.                                                    *)
(***************************************************************************)
\* digits per position of an archive name are 0..Base-1
Base == 4
\* an established host starts at this clock, its archives were made earlier
InitClock == 5
\* archives an established host starts with, at most
MaxInitArchives == 2
\* the last clock value; archive names are strftime(0..MaxClock)
MaxClock == 9
\* invocations started in one behaviour
MaxOps == 2
\* largest keep an operator passes to delete_old_rollback_versions
MaxKeep == 3

\* delete_old_rollback_versions: "keep = 5"
DefaultKeep == 5

(***************************************************************************)
(* Strings.                                                                *)
(***************************************************************************)
EmptyStr == << >>
Yes == <<"y", "e", "s">>
No == <<"n", "o">>
Last == <<"l", "a", "s", "t">>
Master == <<"m", "a", "s", "t", "e", "r">>
Feature == <<"f", "e", "a", "t">>
\* what a checkout without a revision gives under svn and cvs
Tip == <<"H", "E", "A", "D">>

\* Optional arguments (Python's None or a value).
None == << >>
Some(x) == <<x>>

Min(a, b) == IF a < b THEN a ELSE b
Max(a, b) == IF a > b THEN a ELSE b

StartsWith(s, p) == Len(p) <= Len(s) /\ SubSeq(s, 1, Len(p)) = p
EndsWith(s, p) == Len(p) <= Len(s) /\ SubSeq(s, Len(s) - Len(p) + 1, Len(s)) = p
Contains(s, p) == \E i \in 0..(Len(s) - Len(p)) : SubSeq(s, i + 1, i + Len(p)) = p

\* fabric's prompt(validate='^a1|a2|...|an$'): the value is accepted when
\* re.findall finds a match.  "|" binds loosest, so "^" anchors only the first
\* alternative and "$" only the last; one in the middle matches anywhere.
RegexAlternation(s, alts) ==
    IF Len(alts) = 1
    THEN s = alts[1]
    ELSE \/ StartsWith(s, alts[1])
         \/ EndsWith(s, alts[Len(alts)])
         \/ \E i \in 2..(Len(alts) - 1) : Contains(s, alts[i])

\* fabric's prompt: an empty input gives the default.
PromptValue(input, default) == IF input = EmptyStr THEN default ELSE input

\* str.lower() on the characters the prompts see.
LowerChar(c) ==
    CASE c = "Y" -> "y"
      [] c = "E" -> "e"
      [] c = "S" -> "s"
      [] c = "N" -> "n"
      [] c = "O" -> "o"
      [] OTHER -> c
Lower(s) == [i \in DOMAIN s |-> LowerChar(s[i])]

(***************************************************************************)
(* Archive names and listings.                                             *)
(***************************************************************************)
\* time.strftime("%Y-%m-%d_%H-%M-%S"): fixed-width, zero-padded fields, the most
\* significant first; modelled with two fields of one digit each.
strftime(t) == <<ToString(t \div Base), ToString(t % Base)>>

AllNames == {strftime(t) : t \in 0..MaxClock}

CharOrd(c) == CHOOSE d \in 0..(Base * Base) : ToString(d) = c

\* the order of ls: byte-wise lexicographic, a proper prefix first
LexLess(a, b) ==
    \/ \E i \in 1..Min(Len(a), Len(b)) :
          /\ \A j \in 1..(i - 1) : a[j] = b[j]
          /\ CharOrd(a[i]) < CharOrd(b[i])
    \/ Len(a) < Len(b) /\ SubSeq(b, 1, Len(a)) = a
LexLeq(a, b) == a = b \/ LexLess(a, b)

RECURSIVE SortedNames(_)
SortedNames(S) ==
    IF S = {} THEN << >>
    ELSE LET m == CHOOSE x \in S : \A y \in S : LexLeq(x, y)
         IN  <<m>> \o SortedNames(S \ {m})

\* Python: out.split('\n') of a listing with one name per line; the empty
\* output splits into one empty string.
SplitLines(names) == IF names = << >> THEN <<EmptyStr>> ELSE names

\* Python: s[:i]
PySliceTo(s, i) ==
    LET n == Len(s)
        e == IF i < 0 THEN Max(n + i, 0) ELSE Min(i, n)
    IN  SubSeq(s, 1, e)

\* Python: s[-1]
PyLast(s) == s[Len(s)]

(***************************************************************************)
(* Directories.                                                            *)
(***************************************************************************)
NoDir == [kind |-> "none"]
EmptyDir == [kind |-> "empty"]
Release(rev, dirty) == [kind |-> "release", rev |-> rev, dirty |-> dirty]
Exists(d) == d.kind # "none"

\* mv src dst: a rename when dst is absent; into dst when dst is a directory,
\* which fails when dst already holds a directory of that name.
MvOk(dst) == dst.kind # "nested"
Mv(src, dst) ==
    IF dst.kind = "none" THEN src
    ELSE [kind |-> "nested", outer |-> dst, inner |-> src]

\* cp [-a] src dst, src a directory: without -a/-r cp omits the directory and
\* exits non-zero.
CpOk(src, recursive) == Exists(src) /\ recursive

(***************************************************************************)
(* State.                                                                  *)
(***************************************************************************)
VARIABLES
    env,        \* fabric's env: the target's settings, and env.revision
    home,       \* env.server_project_home exists
    current,    \* env.vcs_root_dir (<home>/dev)
    next,       \* env.next_dir (<home>/next)
    prev_root,  \* env.prev_root (<home>/previous) exists
    prev,       \* the directories under env.prev_root, by name
    web,        \* the serving layer: "running" or "stopped"
    conf,       \* the site's configuration link: "live", "maintenance", "none"
    served,     \* the configuration of the site the serving layer last loaded
    db,         \* the database: "populated" or "clean"
    clock,      \* the host's clock, in seconds
    pc,         \* the step the invocation in flight is at, "idle" between two
    op,         \* the task invoked and its arguments
    loc,        \* the invocation's local variables
    result,     \* how the last invocation ended
    log,        \* the remote commands the invocation has run, in order (probes left out)
    pre,        \* the host as the invocation found it
    prior,      \* the invocation before this one
    ops,        \* invocations started
    other       \* a second fab process on the same host: its step, task, local
                \* variables, outcome, commands and env.revision

vars == <<env, home, current, next, prev_root, prev, web, conf, served, db, clock,
          pc, op, loc, result, log, pre, prior, ops, other>>
fsvars == <<home, current, next, prev_root, prev>>
srvvars == <<web, conf, served, db>>
histvars == <<pre, prior, ops, op, clock, other>>

Archives == {n \in AllNames : Exists(prev[n])}
NoArchives == [n \in AllNames |-> NoDir]

Snapshot ==
    [home |-> home, current |-> current, next |-> next, prev_root |-> prev_root,
     prev |-> prev, web |-> web, conf |-> conf, served |-> served, db |-> db]

NoOp ==
    [kind |-> "none", revision |-> None, keep |-> None, version |-> Last,
     migrate |-> FALSE, restore_db |-> FALSE]
InitLoc ==
    [version |-> EmptyStr, to_delete |-> << >>, cont |-> None, branch |-> None,
     continue_anyway |-> None, next_dir_exists |-> None, copied_into |-> FALSE]

\* _setup_paths: env.setdefault('default_branch', {'production': 'master',
\* 'staging': 'master'}); _check_git_branch reads it with .get(..., 'master')
default_branch == Master
\* git branch -r on the server, the HEAD line dropped
branches == <<Master, Feature>>
\* revisions the repository holds
ValidRevs == {Master, Feature, Tip}

Settings ==
    [environment : {"production", "staging"},
     project_type : {"django", "plain"},
     repo_type : {"git", "svn", "cvs"},
     versions_to_keep : {None, Some(1)},
     local_branch : {Master, Feature},
     revision : {None}]

\* a host nothing was deployed to
FreshHost ==
    /\ home = FALSE /\ current = NoDir /\ next = NoDir
    /\ prev_root = FALSE /\ prev = NoArchives
    /\ web = "running" /\ conf = "none" /\ served = "none" /\ db = "clean"

\* a host after some successful deploys: a current release, no next, and archives
\* made at earlier seconds
EstablishedHost(names) ==
    /\ home = TRUE /\ next = NoDir
    /\ \E dirty \in BOOLEAN : current = Release(Master, dirty)
    /\ \E S \in SUBSET names :
          /\ Cardinality(S) <= MaxInitArchives
          /\ prev = [n \in AllNames |-> IF n \in S THEN Release(Master, FALSE) ELSE NoDir]
          /\ prev_root = (S # {})
    /\ web = "running" /\ conf = "live" /\ served = "live" /\ db = "populated"

Idle ==
    /\ pc = "idle" /\ op = NoOp /\ loc = InitLoc
    /\ result = [status |-> "none", error |-> "none"]
    /\ log = << >> /\ ops = 0
    /\ prior = [kind |-> "none", status |-> "none", pre_current |-> NoDir]
    /\ pre = Snapshot
    /\ other = [pc |-> pc, op |-> op, loc |-> loc, result |-> result, log |-> log,
                pre |-> pre, prior |-> prior, revision |-> None]

Init ==
    /\ env \in Settings
    /\ clock = InitClock
    /\ FreshHost \/ EstablishedHost({strftime(t) : t \in 0..(InitClock - 1)})
    /\ Idle

(***************************************************************************)
(* Starting and ending an invocation.                                      *)
(***************************************************************************)
\* One fab invocation at a time, started when the host's clock shows now, with
\* a fresh env.revision.
BeginOpAt(o, first, now) ==
    /\ pc = "idle" /\ ops < MaxOps /\ now <= MaxClock
    /\ op' = o /\ pc' = first /\ ops' = ops + 1 /\ clock' = now
    /\ log' = << >> /\ loc' = InitLoc /\ pre' = Snapshot
    /\ prior' = [kind |-> op.kind, status |-> result.status, pre_current |-> pre.current]
    /\ result' = [status |-> "running", error |-> "none"]
    /\ env' = [env EXCEPT !.revision = None]
    /\ UNCHANGED <<fsvars, srvvars, other>>

\* an invocation started in a later second than the one before it
BeginOp(o, first) == BeginOpAt(o, first, clock + 1)

\* utils.abort, and a remote command that fails outside warn_only
Abort(msg) ==
    /\ pc' = "idle"
    /\ result' = [status |-> "aborted", error |-> msg]

Finish ==
    /\ pc' = "idle"
    /\ result' = [status |-> "ok", error |-> "none"]

Did(effect) == log' = Append(log, effect)

\* _tasks: runs <vcs_root_dir>/deploy/tasks.py on the host
TasksBinExists == current.kind = "release"

(***************************************************************************)
(* deploy                                                                  *)
(***************************************************************************)
\* deploy with maintenance mode entered only after the rotation
DeploySteps_RotateFirst ==
    <<"d_check", "d_mkdir", "d_copy", "d_vcs", "d_pyc", "d_venv", "d_archive",
      "d_promote", "d_maint", "d_tasks", "d_live", "p_list", "d_dumps",
      "d_report">>

\* deploy with the provisioning task requested once maintenance mode is left
DeploySteps_TasksAfterLive ==
    <<"d_check", "d_mkdir", "d_copy", "d_vcs", "d_pyc", "d_venv", "d_maint",
      "d_archive", "d_promote", "d_live", "d_tasks", "p_list", "d_dumps",
      "d_report">>

\* the calls of deploy, in order; next_to_current_to_rollback is its two moves,
\* and delete_old_rollback_versions starts at p_list
DeploySteps ==
    <<"d_check", "d_mkdir", "d_copy", "d_vcs", "d_pyc", "d_venv", "d_maint",
      "d_archive", "d_promote", "d_tasks", "d_live", "p_list", "d_dumps",
      "d_report">>

After(step) ==
    LET i == CHOOSE k \in 1..Len(DeploySteps) : DeploySteps[k] = step
    IN  DeploySteps[i + 1]

StartDeploy ==
    \E revision \in {None, Some(Feature)}, keep \in {None, Some(0), Some(1)} :
        BeginOp([NoOp EXCEPT !.kind = "deploy", !.revision = revision, !.keep = keep],
                DeploySteps[1])

\* files.exists(path.join(env.vcs_root_dir, "." + env.repo_type))
HasWorkingCopy == current.kind = "release"

\* the answers an operator gives to "continue with deployment? (yes/no)"
ContAnswers == {EmptyStr, Yes, No, Yes \o No, <<"m", "a", "y", "b", "e">>}

\* check_for_local_changes: validate=r'^yes|no$'
ValidateCont(value) == RegexAlternation(value, <<Yes, No>>)
\* check_for_local_changes: "if cont == 'no': utils.abort"
ContAborts(value) == value = No

CheckForLocalChanges ==
    /\ pc = "d_check"
    /\ \/ /\ env.repo_type = "cvs" \/ ~HasWorkingCopy
          /\ pc' = After("d_check")
          /\ UNCHANGED <<loc, result>>
       \/ /\ env.repo_type # "cvs" /\ HasWorkingCopy /\ ~current.dirty
          /\ pc' = IF env.repo_type = "git" THEN "d_branch" ELSE After("d_check")
          /\ UNCHANGED <<loc, result>>
       \/ /\ env.repo_type # "cvs" /\ HasWorkingCopy /\ current.dirty
          /\ \E input \in ContAnswers :
                LET cont == PromptValue(input, No) IN
                /\ ValidateCont(cont)
                /\ loc' = [loc EXCEPT !.cont = Some(cont)]
                /\ IF ContAborts(cont)
                   THEN Abort("Aborting deployment")
                   ELSE /\ pc' = IF env.repo_type = "git" THEN "d_branch"
                                 ELSE After("d_check")
                        /\ UNCHANGED result
    /\ UNCHANGED <<env, fsvars, srvvars, histvars, log>>

\* the answers an operator gives to "Which branch would you like to use?"
BranchAnswers ==
    {EmptyStr, Master, Feature, Master \o <<"2">>, <<"x">> \o Feature, <<"d", "e", "v">>}

\* _check_git_branch: '^' + '|'.join(escaped_branches) + '$'
ValidateBranch(value) == RegexAlternation(value, branches)

\* the comparison of the server's branch with the default branch alone
BranchesAgree_ServerOnly(server_branch, local_branch) ==
    server_branch = default_branch

\* _check_git_branch: "if server_branch == local_branch == default_branch"
BranchesAgree(server_branch, local_branch) ==
    server_branch = local_branch /\ local_branch = default_branch

CheckGitBranch ==
    /\ pc = "d_branch"
    /\ LET server_branch == current.rev
           local_branch == env.local_branch
       IN  \/ /\ BranchesAgree(server_branch, local_branch)
              /\ env' = [env EXCEPT !.revision = Some(server_branch)]
              /\ UNCHANGED loc
           \/ /\ ~BranchesAgree(server_branch, local_branch)
              /\ \E input \in BranchAnswers :
                    LET value == PromptValue(input, default_branch) IN
                    /\ ValidateBranch(value)
                    /\ env' = [env EXCEPT !.revision = Some(value)]
                    /\ loc' = [loc EXCEPT !.branch = Some(input)]
    /\ pc' = After("d_check")
    /\ UNCHANGED <<fsvars, srvvars, histvars, result, log>>

\* _create_dir_if_not_exists(env.server_project_home)
CreateProjectHome ==
    /\ pc = "d_mkdir"
    /\ home' = TRUE
    /\ log' = IF home THEN log ELSE Append(log, "mkdir_home")
    /\ pc' = After("d_mkdir")
    /\ UNCHANGED <<env, current, next, prev_root, prev, srvvars, histvars, loc, result>>

\* the answers an operator gives to "continue anyway (and delete the next dir)?"
NextAnswers ==
    {EmptyStr, Yes, No, <<"n", "o", "p", "e">>, <<"o", "y", "e", "s">>,
     <<"Y", "E", "S">>}

\* create_copy_for_next: validate='^no|yes$'
ValidateContinueAnyway(value) == RegexAlternation(value, <<No, Yes>>)
\* the test of check_for_local_changes in its place: abort on 'no' alone
ContinueAnywayAborts_OnlyNo(value) == value = No

\* create_copy_for_next: "if continue_anyway.lower() != 'yes': utils.abort"
ContinueAnywayAborts(value) == Lower(value) # Yes

\* create_copy_for_next without its copy
CopyForNext_NoCopy(cur, nxt) == NoDir

\* create_copy_for_next, past the prompt: rm -rf next when it exists, then cp -a
\* current next when current exists
CopyForNext(cur, nxt) == IF Exists(cur) THEN cur ELSE NoDir

CreateCopyForNext ==
    /\ pc = "d_copy"
    /\ \/ /\ ~Exists(next)
          /\ next' = CopyForNext(current, next)
          /\ log' = IF Exists(current) THEN Append(log, "copy_next") ELSE log
          /\ pc' = After("d_copy")
          /\ UNCHANGED <<loc, result>>
       \/ /\ Exists(next)
          /\ \E input \in NextAnswers :
                LET continue_anyway == PromptValue(input, No) IN
                /\ ValidateContinueAnyway(continue_anyway)
                /\ loc' = [loc EXCEPT !.continue_anyway = Some(continue_anyway)]
                /\ IF ContinueAnywayAborts(continue_anyway)
                   THEN /\ Abort("Aborting deploy")
                        /\ UNCHANGED <<next, log>>
                   ELSE /\ next' = CopyForNext(current, next)
                        /\ log' = IF Exists(current)
                                  THEN log \o <<"rm_next", "copy_next">>
                                  ELSE Append(log, "rm_next")
                        /\ pc' = After("d_copy")
                        /\ UNCHANGED result
    /\ UNCHANGED <<env, home, current, prev_root, prev, srvvars, histvars>>

\* checkout_or_update(in_next=True, revision): what next holds afterwards, NoDir
\* when the command fails
CheckoutOrUpdate(nxt, revision) ==
    CASE env.repo_type = "git" ->
            IF nxt.kind = "release"
            THEN LET rev == IF revision = None THEN env.revision ELSE revision
                 IN  IF rev # None /\ rev[1] \in {branches[i] : i \in DOMAIN branches}
                     THEN [nxt EXCEPT !.rev = rev[1]]
                     ELSE NoDir
            ELSE Release(default_branch, FALSE)
      [] env.repo_type = "svn" ->
            LET rev == IF revision = None THEN Tip ELSE revision[1]
            IN  IF rev \notin ValidRevs THEN NoDir
                ELSE IF nxt.kind = "release" THEN [nxt EXCEPT !.rev = rev]
                ELSE Release(rev, FALSE)
      [] OTHER ->
            IF Exists(nxt) THEN nxt
            ELSE LET rev == IF revision = None THEN Tip ELSE revision[1]
                 IN  IF rev \in ValidRevs THEN Release(rev, FALSE) ELSE NoDir

\* deploy updating the live working copy: checkout_or_update(in_next=False)
CheckoutInNext_InCurrent ==
    /\ pc = "d_vcs"
    /\ LET got == CheckoutOrUpdate(current, op.revision) IN
       IF Exists(got)
       THEN /\ current' = got
            /\ Did("vcs_update")
            /\ pc' = After("d_vcs")
            /\ UNCHANGED result
       ELSE /\ Abort("checkout failed")
            /\ UNCHANGED <<current, log>>
    /\ UNCHANGED <<env, home, next, prev_root, prev, srvvars, histvars, loc>>

CheckoutInNext ==
    /\ pc = "d_vcs"
    /\ LET got == CheckoutOrUpdate(next, op.revision) IN
       IF Exists(got)
       THEN /\ next' = got
            /\ Did("vcs_update")
            /\ pc' = After("d_vcs")
            /\ UNCHANGED result
       ELSE /\ Abort("checkout failed")
            /\ UNCHANGED <<next, log>>
    /\ UNCHANGED <<env, home, current, prev_root, prev, srvvars, histvars, loc>>

\* rm_pyc_files(next/<django dir>), under warn_only
RmPycFiles ==
    /\ pc = "d_pyc"
    /\ log' = IF env.project_type = "django" THEN Append(log, "rm_pyc") ELSE log
    /\ pc' = After("d_pyc")
    /\ UNCHANGED <<env, fsvars, srvvars, histvars, loc, result>>

\* create_deploy_virtualenv(in_next=True)
CreateDeployVirtualenv ==
    /\ pc = "d_venv"
    /\ Did("virtualenv")
    /\ pc' = After("d_venv")
    /\ UNCHANGED <<env, fsvars, srvvars, histvars, loc, result>>

\* link_webserver_conf(maintenance=True), webserver_cmd('reload') under warn_only:
\* the site's link is removed, and made to the maintenance page of the current
\* release when there is one
EnterMaintenance ==
    /\ pc = "d_maint"
    /\ conf' = IF Exists(current) THEN "maintenance" ELSE "none"
    /\ served' = conf'
    /\ Did("maint_on")
    /\ pc' = After("d_maint")
    /\ UNCHANGED <<env, fsvars, web, db, histvars, loc, result>>

\* _dump_db_in_previous_directory, called once vcs_root_dir has become cur:
\* require('django_settings_dir') holds for django projects only (_setup_paths);
\* local_settings.py is looked for under vcs_root_dir
DumpRequireOk == env.project_type = "django"
DumpsDb(cur) == env.project_type = "django" /\ cur.kind = "release"

\* next_to_current_to_rollback, to the end of the dump
ArchiveCurrent ==
    /\ pc = "d_archive"
    /\ \/ /\ ~Exists(current)
          /\ pc' = After("d_archive")
          /\ UNCHANGED <<current, prev_root, prev, log, result>>
       \/ /\ Exists(current)
          /\ LET prev_dir == strftime(clock) IN
             IF ~MvOk(prev[prev_dir])
             THEN /\ Abort("mv failed")
                  /\ prev_root' = TRUE
                  /\ UNCHANGED <<current, prev, log>>
             ELSE /\ prev_root' = TRUE
                  /\ prev' = [prev EXCEPT ![prev_dir] = Mv(current, @)]
                  /\ current' = NoDir
                  /\ log' = log \o (IF prev_root THEN << >> ELSE <<"mkdir_prev">>)
                                \o <<"archive">>
                                \o (IF DumpRequireOk /\ DumpsDb(NoDir)
                                    THEN <<"dump_db">> ELSE << >>)
                  /\ IF DumpRequireOk
                     THEN pc' = After("d_archive") /\ UNCHANGED result
                     ELSE Abort("require django_settings_dir")
    /\ UNCHANGED <<env, home, next, srvvars, histvars, loc>>

\* next_to_current_to_rollback: mv next current
PromoteNext ==
    /\ pc = "d_promote"
    /\ IF Exists(next) /\ MvOk(current)
       THEN /\ current' = Mv(next, current)
            /\ next' = NoDir
            /\ Did("promote")
            /\ pc' = After("d_promote")
            /\ UNCHANGED result
       ELSE /\ Abort("mv failed")
            /\ UNCHANGED <<current, next, log>>
    /\ UNCHANGED <<env, home, prev_root, prev, srvvars, histvars, loc>>

\* _tasks('deploy:' + env.environment)
TasksDeploy ==
    /\ pc = "d_tasks"
    /\ IF TasksBinExists
       THEN /\ db' = "populated"
            /\ Did("task_deploy")
            /\ pc' = After("d_tasks")
            /\ UNCHANGED result
       ELSE /\ Abort("tasks.py failed")
            /\ UNCHANGED <<db, log>>
    /\ UNCHANGED <<env, fsvars, web, conf, served, histvars, loc>>

\* link_webserver_conf(), webserver_cmd('reload'), touch_wsgi()
LeaveMaintenance ==
    /\ pc = "d_live"
    /\ IF current.kind = "release"
       THEN /\ conf' = "live" /\ served' = "live"
            /\ log' = log \o <<"maint_off", "touch_wsgi">>
            /\ pc' = After("d_live")
            /\ UNCHANGED result
       ELSE /\ Abort("No conf file found")
            /\ UNCHANGED <<conf, served, log>>
    /\ UNCHANGED <<env, fsvars, web, db, histvars, loc>>

\* setup_db_dumps(), on production only
SetupDbDumps ==
    /\ pc = "d_dumps"
    /\ IF env.environment # "production"
       THEN pc' = After("d_dumps") /\ UNCHANGED <<log, result>>
       ELSE IF TasksBinExists
            THEN Did("setup_db_dumps") /\ pc' = After("d_dumps") /\ UNCHANGED result
            ELSE Abort("tasks.py failed") /\ UNCHANGED log
    /\ UNCHANGED <<env, fsvars, srvvars, histvars, loc>>

\* _report_downtime
ReportDowntime ==
    /\ pc = "d_report"
    /\ Finish
    /\ UNCHANGED <<env, fsvars, srvvars, histvars, loc, log>>

(***************************************************************************)
(* delete_old_rollback_versions                                            *)
(***************************************************************************)
StartPrune ==
    \E keep \in {None} \cup {Some(k) : k \in 0..MaxKeep} :
        BeginOp([NoOp EXCEPT !.kind = "prune", !.keep = keep], "p_list")

\* keep as the default whatever the argument and the setting
EffectiveKeep_Default(keep) == DefaultKeep

\* keep: the argument, else env.versions_to_keep, else 5
EffectiveKeep(keep) ==
    IF keep = None
    THEN IF env.versions_to_keep # None THEN env.versions_to_keep[1] ELSE DefaultKeep
    ELSE keep[1]

\* the slice one entry short: prev_versions[:versions_to_keep - 1]
VersionsToDelete_OneShort(prev_versions, keep) ==
    PySliceTo(prev_versions, (-1) * keep - 1)

\* the slice from the other end: prev_versions[versions_to_keep:]
VersionsToDelete_Newest(prev_versions, keep) ==
    SubSeq(prev_versions, Max(Len(prev_versions) - keep, 0) + 1, Len(prev_versions))

\* prev_versions[:versions_to_keep] with versions_to_keep = -1 * int(keep)
VersionsToDelete(prev_versions, keep) == PySliceTo(prev_versions, (-1) * keep)

\* run('ls -1 ' + env.prev_root).split('\n')
ListPrevious == SplitLines(SortedNames(Archives))

\* back in the caller once delete_old_rollback_versions returns
PruneReturns ==
    IF op.kind = "prune"
    THEN Finish
    ELSE pc' = After("p_list") /\ UNCHANGED result

PruneList ==
    /\ pc = "p_list"
    /\ IF ~prev_root
       THEN Abort("ls failed") /\ UNCHANGED <<loc, log>>
       ELSE LET keep == EffectiveKeep(op.keep) IN
            /\ Did("ls_prev")
            /\ IF keep = 0
               THEN PruneReturns /\ UNCHANGED loc
               ELSE /\ loc' = [loc EXCEPT !.to_delete = VersionsToDelete(ListPrevious, keep)]
                    /\ pc' = "p_delete"
                    /\ UNCHANGED result
    /\ UNCHANGED <<env, fsvars, srvvars, histvars>>

\* rm -rf path.join(env.prev_root, name): the whole of prev_root for the empty name
RmRfPrevious(name) ==
    IF name = EmptyStr
    THEN prev' = NoArchives /\ prev_root' = FALSE
    ELSE prev' = [prev EXCEPT ![name] = NoDir] /\ UNCHANGED prev_root

PruneDelete ==
    /\ pc = "p_delete"
    /\ loc.to_delete # << >>
    /\ RmRfPrevious(Head(loc.to_delete))
    /\ loc' = [loc EXCEPT !.to_delete = Tail(@)]
    /\ Did("rm_archive")
    /\ UNCHANGED <<env, home, current, next, srvvars, histvars, pc, result>>

PruneEnd ==
    /\ pc = "p_delete"
    /\ loc.to_delete = << >>
    /\ PruneReturns
    /\ UNCHANGED <<env, fsvars, srvvars, histvars, loc, log>>

(***************************************************************************)
(* deploy_clean                                                            *)
(***************************************************************************)
StartDeployClean ==
    \E revision \in {None, Some(Feature)} :
        BeginOp([NoOp EXCEPT !.kind = "deploy_clean", !.revision = revision], "c_guard")

\* deploy_clean without its guard
DeployCleanRefuses_Never == FALSE

\* deploy_clean: "if env.environment == 'production': utils.abort"
DeployCleanRefuses == env.environment = "production"
\* clean_db: "if env.environment == 'production': utils.abort"
CleanDbRefuses == env.environment = "production"

CleanGuard ==
    /\ pc = "c_guard"
    /\ IF DeployCleanRefuses
       THEN Abort("do not delete the production environment!!!")
       ELSE pc' = "c_stop" /\ UNCHANGED result
    /\ UNCHANGED <<env, fsvars, srvvars, histvars, loc, log>>

\* webserver_cmd('stop') under warn_only
CleanStop ==
    /\ pc = "c_stop"
    /\ web' = "stopped"
    /\ Did("web_stop")
    /\ pc' = "c_db"
    /\ UNCHANGED <<env, fsvars, conf, served, db, histvars, loc, result>>

\* clean_db()
CleanDb ==
    /\ pc = "c_db"
    /\ IF CleanDbRefuses
       THEN Abort("do not delete the production database!!!") /\ UNCHANGED <<db, log>>
       ELSE IF TasksBinExists
            THEN /\ db' = "clean"
                 /\ Did("clean_db")
                 /\ pc' = "c_files"
                 /\ UNCHANGED result
            ELSE Abort("tasks.py failed") /\ UNCHANGED <<db, log>>
    /\ UNCHANGED <<env, fsvars, web, conf, served, histvars, loc>>

\* clean_files(): rm -rf env.server_project_home; then deploy(revision)
CleanFiles ==
    /\ pc = "c_files"
    /\ home' = FALSE /\ current' = NoDir /\ next' = NoDir
    /\ prev_root' = FALSE /\ prev' = NoArchives
    /\ Did("clean_files")
    /\ pc' = DeploySteps[1]
    /\ UNCHANGED <<env, srvvars, histvars, loc, result>>

(***************************************************************************)
(* rollback                                                                *)
(***************************************************************************)
\* the versions an operator names
VersionArgs == {Last, strftime(0), strftime(InitClock + 1)}

StartRollback ==
    \E version \in VersionArgs, migrate \in BOOLEAN, restore_db \in BOOLEAN :
        BeginOp([NoOp EXCEPT !.kind = "rollback", !.version = version,
                             !.migrate = migrate, !.restore_db = restore_db],
                "r_validate")

\* rollback rejecting migrate only when restore_db is not set
RollbackArgsError_OnlyMigrate(migrate, restore_db) ==
    IF migrate /\ ~restore_db
    THEN "rollback: haven't worked out how to do migrate yet ..."
    ELSE "none"

\* rollback: the two utils.abort on its arguments
RollbackArgsError(migrate, restore_db) ==
    IF migrate /\ restore_db
    THEN "rollback cannot do both migrate and restore_db"
    ELSE IF migrate
    THEN "rollback: haven't worked out how to do migrate yet ..."
    ELSE "none"

RollbackValidate ==
    /\ pc = "r_validate"
    /\ LET err == RollbackArgsError(op.migrate, op.restore_db) IN
       IF err # "none"
       THEN Abort(err)
       ELSE pc' = "r_resolve" /\ UNCHANGED result
    /\ UNCHANGED <<env, fsvars, srvvars, histvars, loc, log>>

\* the names of a listing on one line, two blanks between them
RECURSIVE JoinNames(_)
JoinNames(names) ==
    IF Len(names) = 1 THEN names[1]
    ELSE names[1] \o <<" ", " ">> \o JoinNames(Tail(names))

\* The lines run('ls ' + env.prev_root) can return.  Without the -1 that
\* delete_old_rollback_versions passes ("the -1 argument ensures one directory
\* per line"), ls chooses the format by what its output is connected to: one
\* name per line, or columns, where the few names of a listing share a line.
LsLines(names) ==
    {SplitLines(names)} \cup
    (IF Len(names) >= 2 THEN {<<JoinNames(names)>>} ELSE {})

\* run('ls ' + env.prev_root).split('\n')[-1]
LastVersion == {PyLast(lines) : lines \in LsLines(SortedNames(Archives))}

RollbackResolve ==
    /\ pc = "r_resolve"
    /\ IF op.version = Last
       THEN IF prev_root
            THEN /\ \E version \in LastVersion :
                        loc' = [loc EXCEPT !.version = version]
                 /\ Did("ls_prev")
                 /\ pc' = "r_exists"
                 /\ UNCHANGED result
            ELSE Abort("ls failed") /\ UNCHANGED <<loc, log>>
       ELSE /\ loc' = [loc EXCEPT !.version = op.version]
            /\ pc' = "r_exists"
            /\ UNCHANGED <<result, log>>
    /\ UNCHANGED <<env, fsvars, srvvars, histvars>>

\* the check of the previous directory alone, whatever the version
RollbackDirExists_RootOnly(version) == prev_root

\* files.exists(path.join(env.prev_root, version))
RollbackDirExists(version) ==
    IF version = EmptyStr THEN prev_root
    ELSE prev_root /\ version \in AllNames /\ Exists(prev[version])

RollbackExists ==
    /\ pc = "r_exists"
    /\ IF RollbackDirExists(loc.version)
       THEN pc' = "r_stop" /\ UNCHANGED result
       ELSE Abort("Cannot rollback to version, it does not exist")
    /\ UNCHANGED <<env, fsvars, srvvars, histvars, loc, log>>

\* webserver_cmd("stop")
RollbackStop ==
    /\ pc = "r_stop"
    /\ web' = "stopped"
    /\ Did("web_stop")
    /\ pc' = "r_copy"
    /\ UNCHANGED <<env, fsvars, conf, served, db, histvars, loc, result>>

\* create_copy_for_rollback: _create_dir_if_not_exists(prev_dir), then
\* sudo_or_run('cp %s %s' % (env.vcs_root_dir, prev_dir)), then the dump
CreateCopyForRollback ==
    /\ pc = "r_copy"
    /\ LET prev_dir == strftime(clock)
           made == IF Exists(prev[prev_dir]) THEN prev[prev_dir] ELSE EmptyDir
       IN  /\ prev_root' = TRUE
           /\ IF CpOk(current, FALSE) /\ MvOk(made)
              THEN /\ prev' = [prev EXCEPT ![prev_dir] = Mv(current, made)]
                   /\ log' = log \o (IF Exists(prev[prev_dir]) THEN << >>
                                     ELSE <<"mkdir_prev_dir">>)
                                 \o <<"copy_rollback">>
                                 \o (IF DumpsDb(current) THEN <<"dump_db">> ELSE << >>)
                   /\ IF DumpRequireOk
                      THEN pc' = "r_restore" /\ UNCHANGED result
                      ELSE Abort("require django_settings_dir")
              ELSE /\ prev' = [prev EXCEPT ![prev_dir] = made]
                   /\ log' = log \o (IF Exists(prev[prev_dir]) THEN << >>
                                     ELSE <<"mkdir_prev_dir">>)
                   /\ Abort("cp: omitting directory")
    /\ UNCHANGED <<env, home, current, next, srvvars, histvars, loc>>

\* rollback past create_copy_for_rollback: load_dbdump when restore_db, rm -rf
\* vcs_root_dir, cp -a rollback_dir vcs_root_dir, webserver_cmd("start").
\* CreateCopyForRollback never hands over to it (its cp has no -a), so it is no
\* disjunct of Next.
RollbackRestore ==
    /\ pc = "r_restore"
    /\ current' = prev[loc.version]
    /\ web' = "running" /\ served' = conf
    /\ log' = log \o (IF op.restore_db THEN <<"load_dbdump">> ELSE << >>)
                  \o <<"rm_current", "copy_current", "web_start">>
    /\ Finish
    /\ UNCHANGED <<env, home, next, prev_root, prev, conf, db, histvars, loc>>

(***************************************************************************)
(* Remote commands that fail.  sudo_or_run, run and sudo abort the task    *)
(* on a non-zero exit unless warn_only is set; deploy and                  *)
(* delete_old_rollback_versions catch nothing.  Each action below is one   *)
(* call of deploy failing at one of its commands: the commands of the call *)
(* that came before the failing one have had their effect.                 *)
(***************************************************************************)
CommandFailed == "remote command failed"

\* what a cp -a that failed leaves at its destination: nothing, or a part
CpLeftovers == {NoDir, EmptyDir}

\* _create_dir_if_not_exists(env.server_project_home): mkdir -p fails
FailCreateProjectHome ==
    /\ pc = "d_mkdir" /\ ~home
    /\ Abort(CommandFailed)
    /\ UNCHANGED <<env, fsvars, srvvars, histvars, loc, log>>

\* create_copy_for_next, the operator having confirmed when next exists:
\* rm -rf next fails, or cp -a current next fails
FailCreateCopyForNext ==
    /\ pc = "d_copy"
    /\ \/ /\ Exists(next)
          /\ UNCHANGED <<next, log>>
       \/ /\ Exists(current)
          /\ next' \in CpLeftovers
          /\ log' = IF Exists(next) THEN Append(log, "rm_next") ELSE log
    /\ Abort(CommandFailed)
    /\ UNCHANGED <<env, home, current, prev_root, prev, srvvars, histvars, loc>>

\* checkout_or_update: one of its commands fails, next as the copy left it
FailCheckoutInNext ==
    /\ pc = "d_vcs"
    /\ Abort(CommandFailed)
    /\ UNCHANGED <<env, fsvars, srvvars, histvars, loc, log>>

\* create_deploy_virtualenv fails
FailCreateDeployVirtualenv ==
    /\ pc = "d_venv"
    /\ Abort(CommandFailed)
    /\ UNCHANGED <<env, fsvars, srvvars, histvars, loc, log>>

\* link_webserver_conf(maintenance=True): the rm of the link fails, or the
\* ln -s to the maintenance page, or a later command (the second link on
\* debian, webserver_configtest)
FailEnterMaintenance ==
    /\ pc = "d_maint"
    /\ \/ conf # "none" /\ UNCHANGED conf
       \/ Exists(current) /\ conf' \in {"none", "maintenance"}
    /\ Abort(CommandFailed)
    /\ UNCHANGED <<env, fsvars, web, served, db, histvars, loc, log>>

\* link_webserver_conf(maintenance=True) done, and the webserver_cmd('reload')
\* after it fails: under warn_only the failure is a warning and deploy goes on,
\* the serving layer still on the configuration it had loaded
EnterMaintenanceReloadFails ==
    /\ pc = "d_maint"
    /\ conf' = IF Exists(current) THEN "maintenance" ELSE "none"
    /\ Did("maint_on")
    /\ pc' = After("d_maint")
    /\ UNCHANGED <<env, fsvars, web, served, db, histvars, loc, result>>

\* next_to_current_to_rollback: mkdir -p prev_root fails, or mv current
\* prev_dir fails
FailArchiveCurrent ==
    /\ pc = "d_archive" /\ Exists(current)
    /\ \/ ~prev_root /\ UNCHANGED <<prev_root, log>>
       \/ /\ prev_root' = TRUE
          /\ log' = IF prev_root THEN log ELSE Append(log, "mkdir_prev")
    /\ Abort(CommandFailed)
    /\ UNCHANGED <<env, home, current, next, prev, srvvars, histvars, loc>>

\* a failed promote that puts the archived release back
FailPromoteNext_Restores ==
    /\ pc = "d_promote"
    /\ Abort(CommandFailed)
    /\ current' = pre.current /\ prev' = pre.prev
    /\ UNCHANGED <<env, home, next, prev_root, srvvars, histvars, loc, log>>

\* next_to_current_to_rollback: mv next current fails
FailPromoteNext ==
    /\ pc = "d_promote"
    /\ Abort(CommandFailed)
    /\ UNCHANGED <<env, fsvars, srvvars, histvars, loc, log>>

\* _tasks('deploy:' + env.environment) fails, the database touched or not
FailTasksDeploy ==
    /\ pc = "d_tasks"
    /\ db' \in {db, "populated"}
    /\ Abort(CommandFailed)
    /\ UNCHANGED <<env, fsvars, web, conf, served, histvars, loc, log>>

\* link_webserver_conf(), webserver_cmd('reload'), touch_wsgi(): the rm of the
\* link fails, or the ln -s to the live configuration, or a later command
FailLeaveMaintenance ==
    /\ pc = "d_live" /\ current.kind = "release"
    /\ \/ conf # "none" /\ UNCHANGED <<conf, served, log>>
       \/ conf' = "none" /\ UNCHANGED <<served, log>>
       \/ conf' = "live" /\ UNCHANGED <<served, log>>
       \/ conf' = "live" /\ served' = "live" /\ Did("maint_off")
    /\ Abort(CommandFailed)
    /\ UNCHANGED <<env, fsvars, web, db, histvars, loc>>

\* delete_old_rollback_versions: ls -1 fails
FailPruneList ==
    /\ pc = "p_list" /\ prev_root
    /\ Abort(CommandFailed)
    /\ UNCHANGED <<env, fsvars, srvvars, histvars, loc, log>>

\* delete_old_rollback_versions: the rm -rf of one version fails, inside the
\* for loop; loc.to_delete keeps the versions the loop had not got past
FailPruneDelete ==
    /\ pc = "p_delete" /\ loc.to_delete # << >>
    /\ Abort(CommandFailed)
    /\ UNCHANGED <<env, fsvars, srvvars, histvars, loc, log>>

\* setup_db_dumps() fails
FailSetupDbDumps ==
    /\ pc = "d_dumps" /\ env.environment = "production"
    /\ Abort(CommandFailed)
    /\ UNCHANGED <<env, fsvars, srvvars, histvars, loc, log>>

FailNext ==
    \/ FailCreateProjectHome \/ FailCreateCopyForNext \/ FailCheckoutInNext
    \/ FailCreateDeployVirtualenv \/ FailEnterMaintenance \/ FailArchiveCurrent
    \/ FailPromoteNext \/ FailTasksDeploy \/ FailLeaveMaintenance
    \/ FailPruneList \/ FailPruneDelete \/ FailSetupDbDumps
    \/ EnterMaintenanceReloadFails

(***************************************************************************)
(* Specifications.                                                         *)
(***************************************************************************)
DeployNext ==
    \/ CheckForLocalChanges \/ CheckGitBranch \/ CreateProjectHome
    \/ CreateCopyForNext \/ CheckoutInNext \/ RmPycFiles
    \/ CreateDeployVirtualenv \/ EnterMaintenance \/ ArchiveCurrent
    \/ PromoteNext \/ TasksDeploy \/ LeaveMaintenance \/ SetupDbDumps
    \/ ReportDowntime

PruneNext == PruneList \/ PruneDelete \/ PruneEnd

CleanNext == CleanGuard \/ CleanStop \/ CleanDb \/ CleanFiles

RollbackNext ==
    \/ RollbackValidate \/ RollbackResolve \/ RollbackExists \/ RollbackStop
    \/ CreateCopyForRollback

Next ==
    \/ StartDeploy \/ StartDeployClean \/ StartRollback
    \/ DeployNext \/ PruneNext \/ CleanNext \/ RollbackNext

Spec == Init /\ [][Next]_vars

\* delete_old_rollback_versions run as a task of its own, on any set of archives
InitPrune ==
    /\ env \in [environment : {"staging"}, project_type : {"django"},
                repo_type : {"git"},
                versions_to_keep : {None} \cup {Some(k) : k \in 0..2},
                local_branch : {Master}, revision : {None}]
    /\ clock = MaxClock - MaxOps
    /\ home = TRUE /\ next = NoDir /\ current = Release(Master, FALSE)
    /\ \E S \in SUBSET {strftime(t) : t \in 0..(MaxClock - MaxOps - 1)} :
          /\ prev = [n \in AllNames |-> IF n \in S THEN Release(Master, FALSE) ELSE NoDir]
          /\ prev_root = TRUE
    /\ web = "running" /\ conf = "live" /\ served = "live" /\ db = "populated"
    /\ Idle

NextPrune == StartPrune \/ PruneNext

SpecPrune == InitPrune /\ [][NextPrune]_vars

\* An invocation that follows another so closely that the host's clock still
\* shows the second the earlier one read for time.strftime.
StartDeployAtOnce ==
    /\ ops > 0
    /\ \E revision \in {None, Some(Feature)}, keep \in {None, Some(0), Some(1)} :
          BeginOpAt([NoOp EXCEPT !.kind = "deploy", !.revision = revision,
                                 !.keep = keep],
                    DeploySteps[1], clock)

StartRollbackAtOnce ==
    /\ ops > 0
    /\ \E version \in VersionArgs, restore_db \in BOOLEAN :
          BeginOpAt([NoOp EXCEPT !.kind = "rollback", !.version = version,
                                 !.restore_db = restore_db],
                    "r_validate", clock)

\* deploy and rollback one after the other, in the same second or a later one
NextTime ==
    \/ StartDeploy \/ StartRollback \/ StartDeployAtOnce \/ StartRollbackAtOnce
    \/ DeployNext \/ PruneNext \/ RollbackNext

\* deploy and delete_old_rollback_versions with commands that may fail
NextFail == StartDeploy \/ StartPrune \/ DeployNext \/ PruneNext \/ FailNext

\* the hosts of Init, with a retention of one version configured and the
\* operator on the default branch
InitFail ==
    /\ Init
    /\ env.versions_to_keep = Some(1)
    /\ env.local_branch = default_branch

SpecFail == InitFail /\ [][NextFail]_vars

SpecTime == InitFail /\ [][NextTime]_vars

(***************************************************************************)
(* Two fab processes deploying to the same host.                           *)
(***************************************************************************)
\* what a fab process holds of its own: the host's directories, web server and
\* clock are shared
Process ==
    [pc |-> pc, op |-> op, loc |-> loc, result |-> result, log |-> log,
     pre |-> pre, prior |-> prior, revision |-> env.revision]

\* the host runs the other process's command next
Switch ==
    /\ pc # "idle" \/ other.pc # "idle"
    /\ other' = Process
    /\ pc' = other.pc /\ op' = other.op /\ loc' = other.loc
    /\ result' = other.result /\ log' = other.log
    /\ pre' = other.pre /\ prior' = other.prior
    /\ env' = [env EXCEPT !.revision = other.revision]
    /\ UNCHANGED <<fsvars, srvvars, ops, clock>>

\* create_copy_for_next never finding a next directory
NextDirExists_Never(nxt) == FALSE

\* create_copy_for_next: files.exists(env.next_dir)
NextDirExists(nxt) == Exists(nxt)

\* create_copy_for_next, its probe of the next directory and the prompt
CheckNextDir ==
    /\ pc = "d_copy"
    /\ \/ /\ ~NextDirExists(next)
          /\ loc' = [loc EXCEPT !.next_dir_exists = Some(Exists(next))]
          /\ pc' = "d_copy_cp"
          /\ UNCHANGED result
       \/ /\ NextDirExists(next)
          /\ \E input \in NextAnswers :
                LET continue_anyway == PromptValue(input, No) IN
                /\ ValidateContinueAnyway(continue_anyway)
                /\ loc' = [loc EXCEPT !.continue_anyway = Some(continue_anyway),
                                      !.next_dir_exists = Some(Exists(next))]
                /\ IF ContinueAnywayAborts(continue_anyway)
                   THEN Abort("Aborting deploy")
                   ELSE pc' = "d_copy_rm" /\ UNCHANGED result
    /\ UNCHANGED <<env, fsvars, srvvars, histvars, log>>

\* create_copy_for_next: rm -rf next
RemoveNextDir ==
    /\ pc = "d_copy_rm"
    /\ next' = NoDir
    /\ Did("rm_next")
    /\ pc' = "d_copy_cp"
    /\ UNCHANGED <<env, home, current, prev_root, prev, srvvars, histvars, loc,
                   result>>

\* cp -a src dst: a copy named dst when dst is absent; a copy inside dst when dst
\* is a directory, which a working copy shows as a local change
CpA(src, dst) ==
    IF dst.kind = "none" THEN src
    ELSE IF dst.kind = "release" THEN [dst EXCEPT !.dirty = TRUE]
    ELSE [kind |-> "nested", outer |-> dst, inner |-> src]

\* create_copy_for_next: files.exists(env.vcs_root_dir) and cp -a current next
CopyCurrentToNext ==
    /\ pc = "d_copy_cp"
    /\ IF Exists(current)
       THEN /\ next' = CpA(current, next)
            /\ Did("copy_next")
            /\ loc' = [loc EXCEPT !.copied_into = Exists(next)]
       ELSE UNCHANGED <<next, log, loc>>
    /\ pc' = After("d_copy")
    /\ UNCHANGED <<env, home, current, prev_root, prev, srvvars, histvars, result>>

\* fab deploy, no revision and no keep given, the one invocation of its process
StartDeployNoArgs ==
    /\ op = NoOp
    /\ BeginOp([NoOp EXCEPT !.kind = "deploy"], DeploySteps[1])

\* two deploys in flight at once, their commands interleaved
NextTwo ==
    \/ StartDeployNoArgs \/ Switch
    \/ CheckForLocalChanges \/ CreateProjectHome
    \/ CheckNextDir \/ RemoveNextDir \/ CopyCurrentToNext
    \/ CheckoutInNext \/ RmPycFiles
    \/ CreateDeployVirtualenv \/ EnterMaintenance \/ ArchiveCurrent
    \/ PromoteNext \/ TasksDeploy \/ LeaveMaintenance \/ SetupDbDumps
    \/ ReportDowntime \/ PruneNext

\* the hosts of InitFail that deploy a django project from subversion to staging
InitTwo ==
    /\ InitFail
    /\ env.repo_type = "svn" /\ env.project_type = "django"
    /\ env.environment = "staging"

SpecTwo == InitTwo /\ [][NextTwo]_vars

(***************************************************************************)
(* Properties.                                                             *)
(***************************************************************************)
PreArchives == {n \in AllNames : Exists(pre.prev[n])}
Deleted == PreArchives \ Archives
Ended == pc = "idle" /\ op.kind # "none"
PruneDone == op.kind = "prune" /\ pc = "idle" /\ result.status = "ok"

\* C1: a deploy that succeeded on a host with a current release, followed at once
\* by rollback("last") with migrate and restore_db false: once the rollback has
\* ended, the current release is the one that was current before the deploy.
C1_DeployRollbackRoundTrip ==
    ( /\ Ended /\ op.kind = "rollback"
      /\ op.version = Last /\ ~op.migrate /\ ~op.restore_db
      /\ prior.kind = "deploy" /\ prior.status = "ok"
      /\ Exists(prior.pre_current) )
    => current = prior.pre_current

\* C2: after delete_old_rollback_versions(keep), keep >= 0, the number of
\* archives is min(the number before, keep) when keep > 0 and the number before
\* when keep = 0, keep being the argument, else env.versions_to_keep, else 5.
C2_PruneCount ==
    PruneDone =>
        LET keep == IF op.keep # None THEN op.keep[1]
                    ELSE IF env.versions_to_keep # None THEN env.versions_to_keep[1]
                    ELSE 5
            before == Cardinality(PreArchives)
        IN  Cardinality(Archives) = IF keep = 0 THEN before ELSE Min(before, keep)

\* C2's case: the default of 5 decided, and archives were deleted
C2_Witness ==
    /\ PruneDone /\ op.keep = None /\ env.versions_to_keep = None
    /\ Cardinality(PreArchives) > 5
    /\ Cardinality(Archives) = 5

\* C3: after delete_old_rollback_versions(keep) every deleted archive is older
\* (its name lexicographically smaller) than every retained one, and nothing but
\* archives that were there is retained.
C3_OldestFirst ==
    PruneDone =>
        /\ Archives \subseteq PreArchives
        /\ \A d \in Deleted : \A r \in Archives : LexLess(d, r)

\* C3's case: some archives deleted and some retained, the two sides differing
\* in the leading field of the name
C3_Witness ==
    /\ PruneDone
    /\ \E d \in Deleted : \E r \in Archives : d[1] # r[1]
    /\ Cardinality(Archives) >= 2

\* C4: rollback with version "last", started with archives present, resolves the
\* version to the archive whose name is the lexicographic maximum of the archives
\* present when it started.
C4_LastIsMaximum ==
    ( /\ op.kind = "rollback" /\ op.version = Last
      /\ pc \in {"r_exists", "r_stop", "r_copy"}
      /\ PreArchives # {} )
    => /\ loc.version \in PreArchives
       /\ \A a \in PreArchives : LexLeq(a, loc.version)

\* C5: deploy_clean on the environment named "production" aborts at its guard:
\* no command has been run, and the serving layer, the database and every
\* directory are as the invocation found them; deploy is never started.
C5_ProductionNotCleaned ==
    (op.kind = "deploy_clean" /\ env.environment = "production")
    => /\ pc \in {"c_guard", "idle"}
       /\ pc = "idle" => result.status = "aborted"
       /\ log = << >>
       /\ Snapshot = pre

\* C5's case: deploy_clean refused on a production host that has a release
C5_Witness ==
    /\ op.kind = "deploy_clean" /\ env.environment = "production"
    /\ pc = "idle" /\ result.status = "aborted"
    /\ Exists(current) /\ web = "running" /\ db = "populated"

\* C6: rollback with migrate and restore_db both true aborts with the validation
\* error having run no remote command; the serving layer, the current release
\* and the archives are as the invocation found them.
C6_MigrateAndRestoreRejected ==
    (op.kind = "rollback" /\ op.migrate /\ op.restore_db)
    => /\ pc \in {"r_validate", "idle"}
       /\ pc = "idle" =>
             result = [status |-> "aborted",
                       error |-> "rollback cannot do both migrate and restore_db"]
       /\ log = << >>
       /\ Snapshot = pre

\* C6's case: the rejected rollback named an archive that exists
C6_Witness ==
    /\ op.kind = "rollback" /\ op.migrate /\ op.restore_db
    /\ pc = "idle" /\ result.status = "aborted"
    /\ op.version \in Archives

\* the effects C7 orders, as the log names them; "ls_prev" is the first command
\* of the pruning
DeployEffects ==
    <<"copy_next", "vcs_update", "maint_on", "archive", "promote", "maint_off",
      "ls_prev">>
OrderedEffects(l) ==
    SelectSeq(l, LAMBDA e : e \in {DeployEffects[i] : i \in DOMAIN DeployEffects})
IsPrefix(a, b) == Len(a) <= Len(b) /\ SubSeq(b, 1, Len(a)) = a

\* C7: in a deploy on a host with a current release the effects occur in the
\* order: next copied from current, VCS update in next, maintenance mode entered,
\* current archived under previous/<timestamp>, next promoted, maintenance mode
\* left, pruning; a successful deploy has them all; next starts as a copy of
\* current, the archive is the release that was current, and just before the
\* pruning there is exactly one archive more than before.
C7_DeployOrder ==
    (op.kind = "deploy" /\ Exists(pre.current))
    => /\ IsPrefix(OrderedEffects(log), DeployEffects)
       /\ (pc = "idle" /\ result.status = "ok") => OrderedEffects(log) = DeployEffects
       /\ pc = "d_vcs" => next = pre.current
       /\ pc = "d_promote" =>
             /\ prev[strftime(clock)] = pre.current
             /\ ~Exists(current)
             /\ conf = "maintenance"
       /\ pc = "d_tasks" => current.kind = "release" /\ conf = "maintenance"
       /\ pc = "p_list" =>
             /\ Cardinality(Archives) = Cardinality(PreArchives) + 1
             /\ conf = "live"

\* C7's case: a deploy of another revision that succeeded and pruned an archive
C7_Witness ==
    /\ op.kind = "deploy" /\ Exists(pre.current)
    /\ pc = "idle" /\ result.status = "ok"
    /\ current.rev # pre.current.rev
    /\ Deleted # {}

\* C8 as claimed, on a host that had a current release when the invocation
\* started: outside the states between the two moves of the rotation, exactly
\* one of current and next exists.
C8_ExactlyOne ==
    (op.kind # "none" /\ Exists(pre.current) /\ pc # "d_promote")
    => (Exists(current) # Exists(next))

BeforeRotation == {"d_vcs", "d_pyc", "d_venv", "d_maint", "d_archive"}
AfterRotation == {"d_tasks", "d_live", "p_list", "p_delete", "d_dumps", "d_report"}

\* C8 amended: in a deploy on a host with a current release both current and
\* next exist from the copy step to the archive move; between the two moves of
\* the rotation only next exists; from the promote move to the end of the deploy,
\* and once a deploy has succeeded, only current exists.
C8_CurrentAndNext ==
    op.kind \in {"deploy", "deploy_clean"}
    => /\ (Exists(pre.current) /\ op.kind = "deploy" /\ pc \in BeforeRotation)
              => (Exists(current) /\ Exists(next))
       /\ pc = "d_promote" => (~Exists(current) /\ Exists(next))
       /\ pc \in AfterRotation => (Exists(current) /\ ~Exists(next))
       /\ (pc = "idle" /\ result.status = "ok") => (Exists(current) /\ ~Exists(next))

\* C8's case: the staging of a deploy, the live release and its copy both there
C8_Witness ==
    /\ op.kind = "deploy" /\ pc = "d_maint"
    /\ Exists(current) /\ Exists(next) /\ next.rev # current.rev

\* C9: rollback to a named version that is not among the archives ends with the
\* not-found error before the serving layer is stopped: the serving layer, the
\* current release and the archives are as the invocation found them.
C9_UnknownVersionRejected ==
    (op.kind = "rollback" /\ op.version # Last /\ op.version \notin PreArchives)
    => /\ pc \in {"r_validate", "r_resolve", "r_exists", "idle"}
       /\ pc = "idle" => result.status = "aborted"
       /\ (pc = "idle" /\ ~op.migrate) =>
             result.error = "Cannot rollback to version, it does not exist"
       /\ log = << >>
       /\ Snapshot = pre

\* C9's case: the named version is missing while other archives exist
C9_Witness ==
    /\ op.kind = "rollback" /\ op.version # Last /\ op.version \notin PreArchives
    /\ ~op.migrate /\ PreArchives # {}
    /\ pc = "idle" /\ result.status = "aborted"

\* C10: when the status query reported local changes and the operator's answer
\* is anything but yes, the deploy is aborted with next, current and the archives
\* as it found them.
C10_OnlyYesContinues ==
    (op.kind = "deploy" /\ loc.cont # None /\ loc.cont[1] # Yes)
    => /\ pc = "idle" /\ result.status = "aborted"
       /\ next = pre.next /\ current = pre.current /\ prev = pre.prev

\* the branch check of a deploy has run: a git working copy was there, and the
\* operator did not decline at the local changes
BranchChecked ==
    /\ op.kind = "deploy" /\ env.repo_type = "git"
    /\ pre.current.kind = "release"
    /\ pc \notin {"d_check", "d_branch"}
    /\ loc.cont # Some(No)

\* C11: when the branch check prompted, the revision stored for the deploy is
\* one of the remote branch names.
C11_RevisionIsBranch ==
    (BranchChecked /\ loc.branch # None)
    => \E i \in DOMAIN branches : env.revision = Some(branches[i])

\* C12: once the branch check of a git deploy has run, the operator was prompted
\* if and only if the server's branch, the local branch and the default branch
\* are not all equal; without a prompt the revision is the common branch; with
\* one it is the operator's answer, the default branch for the empty answer.
C12_PromptIffMismatch ==
    BranchChecked =>
        LET server == pre.current.rev
            agree == server = env.local_branch /\ env.local_branch = Master
        IN  /\ (loc.branch = None) <=> agree
            /\ agree => env.revision = Some(server)
            /\ ~agree =>
                  env.revision = Some(IF loc.branch[1] = EmptyStr THEN Master
                                      ELSE loc.branch[1])

\* C12's case: the server on the default branch, the operator's local branch
\* another one, and the suggestion taken by answering with the empty line
C12_Witness ==
    /\ BranchChecked
    /\ pre.current.rev = Master /\ env.local_branch = Feature
    /\ loc.branch = Some(EmptyStr) /\ env.revision = Some(Master)

Has(effect) == \E i \in DOMAIN log : log[i] = effect
DeployAborted == op.kind = "deploy" /\ pc = "idle" /\ result.status = "aborted"

\* C13: a deploy on a host with a current release that was aborted, by a failed
\* command or by the code, has run a prefix of its steps and nothing after it,
\* and what the completed steps did is still there: before the archive move
\* current and the archives are as the deploy found them; a copy made and not
\* promoted leaves next in place; maintenance mode entered and the rotation or
\* the provisioning not finished leaves the maintenance configuration; the
\* archive made stays, with current absent until the promote; after the promote
\* current exists and next does not.
C13_AbortLeavesState ==
    (DeployAborted /\ Exists(pre.current))
    => /\ IsPrefix(OrderedEffects(log), DeployEffects)
       /\ ~Has("archive") => (current = pre.current /\ prev = pre.prev)
       /\ (Has("copy_next") /\ ~Has("promote")) => Exists(next)
       /\ (Has("maint_on") /\ ~Has("task_deploy")) => conf = "maintenance"
       /\ (Has("archive") /\ ~Has("rm_archive")) => prev[strftime(clock)] = pre.current
       /\ (Has("archive") /\ ~Has("promote")) => ~Exists(current)
       /\ Has("promote") => (Exists(current) /\ ~Exists(next))

\* C13's case: the promote move failed, with current archived, next in place
\* and the maintenance configuration on
C13_Witness ==
    /\ DeployAborted /\ Exists(pre.current)
    /\ result.error = CommandFailed
    /\ Has("archive") /\ ~Has("promote")
    /\ ~Exists(current) /\ Exists(next) /\ conf = "maintenance"

\* C14: with no command failing but what the dump step itself does, a deploy
\* that has moved current to the archive goes on to promote next: past the
\* archive move it is either at the promote move or has made it.
C14_DumpNeverAborts ==
    (op.kind = "deploy" /\ Has("archive"))
    => (pc = "d_promote" \/ Has("promote"))

\* C15: in a deploy on a host that had a current release, whenever current is
\* absent the archive move has been made and the promote move has not, the
\* maintenance configuration is linked, and the serving layer is not serving
\* the live configuration.
C15_UnpopulatedUnderMaintenance ==
    (op.kind = "deploy" /\ Exists(pre.current) /\ ~Exists(current))
    => /\ Has("archive") /\ ~Has("promote")
       /\ conf = "maintenance"
       /\ served # "live"

Pos(effect) == CHOOSE i \in DOMAIN log : log[i] = effect
\* effect b has happened only once effect a had
Before(a, b) == Has(b) => (Has(a) /\ Pos(a) < Pos(b))

\* C16 as claimed: once the provisioning task has been requested, maintenance
\* mode has been left.
C16_TaskAfterRoutingRestored ==
    (op.kind \in {"deploy", "deploy_clean"} /\ Has("task_deploy"))
    => Has("maint_off")

\* C16 amended: in deploy the provisioning task is requested after the promote
\* move, before maintenance mode is left and before the pruning lists the
\* archives; while it is requested the site's link is not the live one.
C16_TaskUnderMaintenance ==
    op.kind \in {"deploy", "deploy_clean"}
    => /\ Before("promote", "task_deploy")
       /\ Before("task_deploy", "maint_off")
       /\ Before("task_deploy", "ls_prev")
       /\ pc = "d_tasks" => (Has("maint_on") /\ conf # "live" /\ served # "live")

\* C16's case: a deploy on a host with a current release has run the task,
\* left maintenance mode and listed the archives
C16_Witness ==
    /\ op.kind = "deploy" /\ Exists(pre.current)
    /\ Has("task_deploy") /\ Has("maint_off") /\ Has("ls_prev")
    /\ pc = "idle" /\ result.status = "ok"

\* C17: a deploy that found next at its copy step and was answered yes removes
\* it; answered anything else that the prompt accepts, it is aborted with next
\* and current as it found them and nothing removed; next is removed by no
\* deploy that was not answered yes.
C17_NextDeletedOnlyOnYes ==
    op.kind = "deploy"
    => /\ Has("rm_next") => loc.continue_anyway = Some(Yes)
       /\ loc.continue_anyway = Some(Yes) => Has("rm_next")
       /\ (loc.continue_anyway # None /\ loc.continue_anyway # Some(Yes))
            => /\ pc = "idle" /\ result.status = "aborted"
               /\ Exists(pre.next) /\ next = pre.next /\ current = pre.current
               /\ log = << >>

\* C17's case: next left by an earlier deploy, and an answer the prompt accepts
\* for ending in yes
C17_Witness ==
    /\ op.kind = "deploy" /\ Exists(pre.next) /\ Exists(pre.current)
    /\ loc.continue_anyway = Some(<<"o", "y", "e", "s">>)
    /\ pc = "idle" /\ result.status = "aborted"

\* C18: when the rm -rf of one version selected for pruning has failed, every
\* other selected version is deleted all the same: of the versions the loop
\* had not got past, all but the one whose deletion failed are gone.
C18_OtherDeletionsProceed ==
    ( /\ pc = "idle" /\ result.error = CommandFailed
      /\ loc.to_delete # << >> )
    => \A i \in 2..Len(loc.to_delete) : ~Exists(prev[loc.to_delete[i]])

\* a rollback, ended, that named one of the archives and asked for no migration,
\* on a host with a current release
RollbackOfArchiveEnded ==
    /\ op.kind = "rollback" /\ pc = "idle"
    /\ op.version \in PreArchives /\ ~op.migrate
    /\ Exists(pre.current)

\* C19: a rollback to one of the archives succeeds, and afterwards there is
\* exactly one archive that was not there before, named by the timestamp and
\* holding the release that was current before the rollback, and the chosen
\* archive is still there.
C19_RollbackArchivesCurrent ==
    RollbackOfArchiveEnded
    => /\ result.status = "ok"
       /\ Archives \ PreArchives = {strftime(clock)}
       /\ prev[strftime(clock)] = pre.current
       /\ prev[op.version] = pre.prev[op.version]

\* C20: a rollback to one of the archives runs, in this order: stop of the
\* serving layer, archive of the current release, load of the archive's dump
\* when restore_db is set, removal of current, copy of the archive to current,
\* start of the serving layer; it ends with the serving layer running.
C20_RollbackOrder ==
    RollbackOfArchiveEnded
    => /\ SelectSeq(log, LAMBDA e : e # "mkdir_prev_dir" /\ e # "dump_db")
            = <<"web_stop", "copy_rollback">>
               \o (IF op.restore_db THEN <<"load_dbdump">> ELSE << >>)
               \o <<"rm_current", "copy_current", "web_start">>
       /\ web = "running"

\* an archive event has happened: the rotation of a deploy has moved current,
\* or a rollback has got past create_copy_for_rollback
ArchiveEvent ==
    \/ op.kind = "deploy" /\ Has("archive")
    \/ op.kind = "rollback" /\ Has("web_stop") /\ pc = "idle"

\* C21: the directory an archive event archives to, named by the second it
\* happens in, is none of the archives that were there before.
C21_ArchiveNameFresh ==
    ArchiveEvent => strftime(clock) \notin PreArchives

\* C22: in a deploy that has not entered maintenance mode, the current release,
\* the archives, the site's configuration, the serving layer and the database
\* are as the deploy found them.
C22_LiveUntouchedBeforeMaintenance ==
    (op.kind = "deploy" /\ ~Has("maint_on"))
    => /\ current = pre.current
       /\ prev = pre.prev /\ prev_root = pre.prev_root
       /\ conf = pre.conf /\ served = pre.served /\ web = pre.web
       /\ db = pre.db

\* C22's case: about to enter maintenance mode, next copied from current,
\* updated to another revision, cleaned of stale files and provisioned
\* while current serves on
C22_Witness ==
    /\ op.kind = "deploy" /\ pc = "d_maint"
    /\ Has("copy_next") /\ Has("vcs_update") /\ Has("rm_pyc") /\ Has("virtualenv")
    /\ Exists(pre.current) /\ next # pre.current /\ next # pre.next
    /\ served = "live"

\* C23: in a deploy of a django project on a host whose current release has its
\* settings, once current has been archived the dump task has been issued, and
\* it was issued after the archive move and before the promote move.
C23_DumpIssuedInArchive ==
    ( /\ op.kind = "deploy" /\ env.project_type = "django"
      /\ pre.current.kind = "release" /\ Has("archive") )
    => /\ Has("dump_db")
       /\ Before("archive", "dump_db")
       /\ Before("dump_db", "promote")

\* the keep a deploy prunes with
KeepOfDeploy ==
    IF op.keep # None THEN op.keep[1]
    ELSE IF env.versions_to_keep # None THEN env.versions_to_keep[1]
    ELSE 5

C25_FirstDeployCompletes ==
    (op.kind = "deploy" /\ ~pre.home /\ pc = "idle")
    => /\ ~Has("archive") /\ Has("promote") /\ Exists(current)
       /\ result.status = "ok"

\* the other fab process has put a next directory on the host: by cp -a, or by
\* the checkout that makes next when there is no current release
OtherMadeNext ==
    /\ other.op.kind = "deploy"
    /\ \E i \in DOMAIN other.log : other.log[i] \in {"copy_next", "vcs_update"}

\* C26: of two deploys in flight at once, neither copies into a next directory
\* the other made unless it was prompted about the next directory and the
\* operator answered yes.
C26_ForeignNextDetected ==
    (op.kind = "deploy" /\ loc.copied_into /\ OtherMadeNext)
    => loc.continue_anyway = Some(Yes)

\* C26 amended: of two deploys in flight at once, each is prompted exactly when
\* the next directory exists at its own probe; it deletes next only after the
\* answer yes, and any other answer aborts it before it copies; a copy that
\* lands in an existing next directory lands in one the other deploy made
\* after that probe or deletion, prompted or not.
C26_PromptedIffNextAtProbe ==
    op.kind = "deploy"
    => /\ loc.next_dir_exists # None
              => (loc.next_dir_exists = Some(TRUE) <=> loc.continue_anyway # None)
       /\ Has("rm_next") => loc.continue_anyway = Some(Yes)
       /\ loc.continue_anyway \notin {None, Some(Yes)}
              => /\ pc = "idle" /\ result.status = "aborted"
                 /\ ~Has("rm_next") /\ ~Has("copy_next")
       /\ loc.copied_into => OtherMadeNext

\* two deploys probed before either copied: the later copy landed, unprompted,
\* in the next directory the earlier one made
C26_Witness ==
    /\ op.kind = "deploy" /\ loc.copied_into /\ OtherMadeNext
    /\ loc.next_dir_exists = Some(FALSE) /\ loc.continue_anyway = None
    /\ other.loc.next_dir_exists = Some(FALSE)

====
